---- MODULE Spec2Model ----
(***************************************************************************)
(* Writetracer: the Home page (save-status debounce and text metrics),    *)
(* the SuggestionsPanel (rule-based suggestion selection) and the          *)
(* DocEditor (update subscription and file insertion).                     *)
(*                                                                         *)
(* Time is counted in milliseconds.  A timer created by window.setTimeout  *)
(* is a pair (handle, remaining delay); the browser removes it from its    *)
(* timer list when it fires or when clearTimeout is called on its handle.  *)
(***************************************************************************)
EXTENDS Integers, Sequences, FiniteSets, TLC

VARIABLES
    saveStatus,      \* Home: useState "Saved" | "Editing"
    contentLength,   \* Home: useState number
    paragraphCount,  \* Home: useState number
    saveTimerRef,    \* Home: useRef<number | null>; 0 stands for null
    mounted,         \* Home is mounted (the effect cleanup has not run)
    timers,          \* browser: live timers, handle -> remaining delay
    nextTimerId,     \* browser: the handle the next setTimeout returns
    suggestions,     \* SuggestionsPanel: the memoised suggestion list
    selectedId,      \* SuggestionsPanel: useState string | null; "null" is null
    editorText,      \* DocEditor: editor.getText(), the current plain text
    editor,          \* DocEditor: useEditor has created the editor (else null)
    onContentChange, \* DocEditor: the callback prop of the latest render
    handlers,        \* editor: the "update" listeners, in subscription order
    cleanup,         \* DocEditor: the handler the effect's cleanup will remove
    nextHandlerId,   \* identity of the next handleUpdate closure
    editorMounted,   \* DocEditor is mounted
    doc,             \* editor: the nodes inserted from files, in document order
    readers,         \* browser: the files whose FileReader has not finished
    nextFileId,      \* identity of the next File object handed to the editor
    delivered,       \* history: the callbacks run by the latest update event
    idle,            \* history: ms since the last change with length > 0 (capped)
    fired            \* history: handles of the timers whose callback has run

editorVars == <<editor, onContentChange, handlers, cleanup, nextHandlerId,
                editorMounted, doc, readers, nextFileId, delivered>>

vars == <<saveStatus, contentLength, paragraphCount, saveTimerRef, mounted,
          timers, nextTimerId, suggestions, selectedId, editorText, idle, fired,
          editorVars>>

homeVars == <<saveStatus, contentLength, paragraphCount, saveTimerRef, mounted,
              timers, nextTimerId, editorText, idle, fired>>

----------------------------------------------------------------------------
(* Bounds of the model *)

MaxTimers == 3        \* setTimeout calls explored (handles 1..MaxTimers)
MaxContentLen == 1    \* longest plain text the editor emits in Spec
MaxTextLen == 5       \* longest plain text the editor emits in SpecMetrics
MaxLength == 1001     \* largest contentLength prop explored in SpecPanel
MaxParagraphs == 4    \* largest paragraphCount prop explored in SpecPanel
MaxCallbacks == 3     \* identities of the onContentChange closures explored
MaxHandlers == 4      \* runs of the subscription effect explored
MaxFiles == 3         \* File objects handed to the editor
MaxBatch == 3         \* longest list of files handed over together

(* Program constants *)

DebounceMs == 900     \* the delay passed to window.setTimeout
NullRef == 0          \* saveTimerRef.current === null (falsy)

Range(f) == {f[x] : x \in DOMAIN f}

Min(a, b) == IF a < b THEN a ELSE b
Max(a, b) == IF a > b THEN a ELSE b

----------------------------------------------------------------------------
(* Plain text: sequences of characters *)

Chars == {"a", " ", "\n"}

Contents == UNION {[1..n -> Chars] : n \in 0..MaxContentLen}

Texts == UNION {[1..n -> Chars] : n \in 0..MaxTextLen}

IsSpace(c) == c \in {" ", "\n"}

\* content.split("\n"): the maximal runs between newline characters
RECURSIVE SplitFrom(_, _, _)
SplitFrom(content, i, line) ==
    IF i > Len(content) THEN <<line>>
    ELSE IF content[i] = "\n"
         THEN <<line>> \o SplitFrom(content, i + 1, <<>>)
         ELSE SplitFrom(content, i + 1, Append(line, content[i]))

Split(content) == SplitFrom(content, 1, <<>>)

\* line.trim(): leading and trailing whitespace removed
RECURSIVE TrimStart(_)
TrimStart(line) ==
    IF line /= <<>> /\ IsSpace(Head(line)) THEN TrimStart(Tail(line)) ELSE line

RECURSIVE TrimEnd(_)
TrimEnd(line) ==
    IF line /= <<>> /\ IsSpace(line[Len(line)])
    THEN TrimEnd(SubSeq(line, 1, Len(line) - 1))
    ELSE line

\* faulty variant: the line is not trimmed
TrimNothing(line) == line

Trim(line) == TrimEnd(TrimStart(line))

\* faulty variant: the blank lines are not filtered out
ParagraphsUnfiltered(content) == Split(content)

\* content.split("\n").filter((line) => line.trim().length > 0)
Paragraphs(content) == SelectSeq(Split(content), LAMBDA line : Len(Trim(line)) > 0)

----------------------------------------------------------------------------
(* Numbers: IEEE 754 double precision, as far as getProgress needs it.     *)
(* A positive double is [h, m, l, e]: its 53-bit significand is            *)
(* h * 2^36 + m * 2^18 + l, with 2^16 <= h < 2^17 and m, l < 2^18, and its *)
(* value is significand * 2^e.  The limbs keep every product below 2^31.   *)

RECURSIVE Pow2(_)
Pow2(k) == IF k = 0 THEN 1 ELSE 2 * Pow2(k - 1)

Limb == Pow2(18)

\* the number of binary digits of a natural number
RECURSIVE BitLen(_)
BitLen(n) == IF n = 0 THEN 0 ELSE 1 + BitLen(n \div 2)

\* the significand plus one unit in the last place
NextUp(x) ==
    IF x.l + 1 < Limb THEN [x EXCEPT !.l = x.l + 1]
    ELSE IF x.m + 1 < Limb THEN [x EXCEPT !.l = 0, !.m = x.m + 1]
    ELSE IF x.h + 1 < Pow2(17) THEN [x EXCEPT !.l = 0, !.m = 0, !.h = x.h + 1]
    ELSE [h |-> Pow2(16), m |-> 0, l |-> 0, e |-> x.e + 1]

\* round to nearest, ties to even: x is the exact value truncated to 53 bits,
\* and the part cut off is rest / unit of a unit in the last place
RoundNearestEven(x, rest, unit) ==
    IF 2 * rest > unit \/ (2 * rest = unit /\ (x.l % 2) = 1) THEN NextUp(x) ELSE x

\* the power of two k with b * 2^k <= a < b * 2^(k+1)
RECURSIVE Scale(_, _)
Scale(a, b) ==
    IF a < b THEN Scale(2 * a, b) - 1
    ELSE IF a >= 2 * b THEN Scale(a, 2 * b) + 1
    ELSE 0

\* the double n / d of two positive integers below 2^12 (both exact doubles):
\* long division, 16 + 18 + 18 quotient bits after the leading one
DivDouble(n, d) ==
    LET k == Scale(n, d)
        a == IF k < 0 THEN n * Pow2(0 - k) ELSE n
        b == IF k > 0 THEN d * Pow2(k) ELSE d
        r0 == a - b
        q1 == (r0 * Pow2(16)) \div b
        r1 == (r0 * Pow2(16)) % b
        q2 == (r1 * Limb) \div b
        r2 == (r1 * Limb) % b
        q3 == (r2 * Limb) \div b
        r3 == (r2 * Limb) % b
    IN  RoundNearestEven([h |-> Pow2(16) + q1, m |-> q2, l |-> q3, e |-> k - 52], r3, b)

\* the double x * c, c a positive integer below 2^12 (an exact double):
\* the exact product limb by limb, cut back to 53 bits
MulDouble(x, c) ==
    LET pl == x.l * c
        pm == (x.m * c) + (pl \div Limb)
        ph == (x.h * c) + (pm \div Limb)
        s == BitLen(ph) - 17          \* the bits the product has too many
        cut == Pow2(s)
        up == Pow2(18 - s)
        lo == pl % Limb
        mi == pm % Limb
    IN  RoundNearestEven([h |-> ph \div cut,
                          m |-> (mi \div cut) + ((ph % cut) * up),
                          l |-> (lo \div cut) + ((mi % cut) * up),
                          e |-> x.e + s],
                         lo % cut, cut)

\* Math.round(x) for a positive double below 2^16: the integer part, plus 1
\* when the fraction is at least one half
MathRound(x) ==
    LET n == 53 + x.e          \* the number of bits before the binary point
    IN  IF n < 0 THEN 0
        ELSE (x.h \div Pow2(17 - n)) + ((x.h \div Pow2(16 - n)) % 2)

----------------------------------------------------------------------------
(* SuggestionsPanel: the suggestion list *)

Sug(id, title, tone, priority) ==
    [id |-> id, title |-> title, tone |-> tone, priority |-> priority]

Bucket1 == << Sug("1", "outline first", "structure", "high"),
              Sug("2", "thesis in one sentence", "clarity", "mid") >>

Bucket2 == << Sug("1", "summarise each paragraph", "structure", "high"),
              Sug("2", "add a concrete example", "evidence", "mid") >>

\* faulty variant: the second card carries the id of the first (copied entry)
Bucket3SameId == << Sug("1", "split into paragraphs", "structure", "high"),
                    Sug("1", "define each paragraph's role", "flow", "mid") >>

Bucket3 == << Sug("1", "split into paragraphs", "structure", "high"),
              Sug("2", "define each paragraph's role", "flow", "mid") >>

\* faulty variant: the third card carries the id of the second (copied entry)
Bucket4SameId == << Sug("1", "check transitions", "flow", "mid"),
                    Sug("2", "strengthen evidence", "evidence", "high"),
                    Sug("2", "address a counterargument", "clarity", "mid"),
                    Sug("4", "strengthen the conclusion", "structure", "high") >>

Bucket4 == << Sug("1", "check transitions", "flow", "mid"),
              Sug("2", "strengthen evidence", "evidence", "high"),
              Sug("3", "address a counterargument", "clarity", "mid"),
              Sug("4", "strengthen the conclusion", "structure", "high") >>

Fallback == Sug("default-1", "check readability", "clarity", "low")

\* faulty variant: the final else branch pushes nothing
PickBucketNoElse(length, paragraphs) ==
    IF length < 100 THEN Bucket1
    ELSE IF length < 500 THEN Bucket2
    ELSE IF paragraphs < 3 THEN Bucket3
    ELSE << >>

\* faulty variant: the length thresholds are compared with <=
PickBucketLengthInclusive(length, paragraphs) ==
    IF length <= 100 THEN Bucket1
    ELSE IF length <= 500 THEN Bucket2
    ELSE IF paragraphs < 3 THEN Bucket3
    ELSE Bucket4

\* faulty variant: the paragraph threshold is 2
PickBucketTwoParagraphs(length, paragraphs) ==
    IF length < 100 THEN Bucket1
    ELSE IF length < 500 THEN Bucket2
    ELSE IF paragraphs < 2 THEN Bucket3
    ELSE Bucket4

\* the if / else-if chain that fills s
PickBucket(length, paragraphs) ==
    IF length < 100 THEN Bucket1
    ELSE IF length < 500 THEN Bucket2
    ELSE IF paragraphs < 3 THEN Bucket3
    ELSE Bucket4

\* faulty variant: the fallback is pushed for lists of up to 2 entries
WithFallbackUpToTwo(s) == IF Len(s) <= 2 THEN Append(s, Fallback) ELSE s

\* if (s.length < 2) s.push(fallback)
WithFallback(s) == IF Len(s) < 2 THEN Append(s, Fallback) ELSE s

\* faulty variant: s.slice(0, 3)
Slice3(s) == SubSeq(s, 1, Min(Len(s), 3))

\* s.slice(0, 4)
Slice4(s) == SubSeq(s, 1, Min(Len(s), 4))

Select(length, paragraphs) == Slice4(WithFallback(PickBucket(length, paragraphs)))

\* function clamp(n, min, max)
clamp(n, min, max) == Max(min, Min(max, n))

\* function getProgress: Math.round((clamp(contentLength, 0, 1000) / 1000) * 100)
getProgress(length) ==
    LET c == clamp(length, 0, 1000)
    IN  IF c = 0 THEN 0 ELSE MathRound(MulDouble(DivDouble(c, 1000), 100))

\* getProgress for every length explored
ProgressOf == [n \in 0..(MaxLength + 1) |-> getProgress(n)]

\* const progress = getProgress(contentLength)
progress == ProgressOf[contentLength]

----------------------------------------------------------------------------
(* DocEditor: the editor, its update listeners and the files handed to it *)

NoCallback == 0       \* onContentChange === undefined
NoHandler == 0        \* the effect returned no cleanup

\* every variable but those of DocEditor and the editor's text
pageVars == <<saveStatus, contentLength, paragraphCount, saveTimerRef, mounted,
              timers, nextTimerId, suggestions, selectedId, idle, fired>>

\* editor.on("update", h): the listener is added after the ones present
On(hs, h) == Append(hs, h)

\* editor.off("update", h): the listeners that are the function h are removed
Off(hs, id) == SelectSeq(hs, LAMBDA h : h.id /= id)

\* the editor emits "update": every listener runs, in subscription order;
\* handleUpdate calls the onContentChange it closed over with editor.getText()
Emit(hs, text) == [i \in 1..Len(hs) |-> [cb |-> hs[i].cb, text |-> text]]

\* if (!editor || !onContentChange) return
Subscribes(ed, cb) == ed /\ cb /= NoCallback

\* the effect body: editor.on("update", handleUpdate), unless it returned early
Subscribe(hs, ed, cb, id) ==
    IF Subscribes(ed, cb) THEN On(hs, [id |-> id, cb |-> cb]) ELSE hs

\* the cleanup returned by the previous run of the effect, if it returned one
EffectCleanup(hs, c) == IF c = NoHandler THEN hs ELSE Off(hs, c)

\* faulty variant: the previous handler is left subscribed
RerunEffectNoCleanup(hs, c, ed, cb, id) == Subscribe(hs, ed, cb, id)

\* a dependency changed: the previous cleanup runs, then the effect body
RerunEffect(hs, c, ed, cb, id) == Subscribe(EffectCleanup(hs, c), ed, cb, id)

\* file.type, a string of characters
TypePdf == <<"a", "p", "p", "/", "p", "d", "f">>
TypePng == <<"i", "m", "a", "g", "e", "/", "p", "n", "g">>
TypeNone == << >>
ImagePrefix == <<"i", "m", "a", "g", "e", "/">>

\* the files a user hands over: name, size in bytes, type
FileKinds ==
    { [name |-> "a.pdf", size |-> 1024, type |-> TypePdf],
      [name |-> "b.png", size |-> 2048, type |-> TypePng],
      [name |-> "d", size |-> 0, type |-> TypeNone] }

\* the lists of files dropped, pasted or chosen together
Batches == UNION {[1..n -> FileKinds] : n \in 1..MaxBatch}

\* the File objects of a list: each is a new object
WithIds(ks, first) ==
    [i \in 1..Len(ks) |->
        [id |-> first + i - 1, name |-> ks[i].name, size |-> ks[i].size,
         type |-> ks[i].type]]

\* String.prototype.startsWith
StartsWith(s, prefix) ==
    Len(s) >= Len(prefix) /\ SubSeq(s, 1, Len(prefix)) = prefix

\* file.type.startsWith("image/")
IsImage(file) == StartsWith(file.type, ImagePrefix)

\* insertContent({type: "attachment", attrs: {name, size, type}}); the field
\* file records the File object the node was made from
AttachmentNode(file) ==
    [kind |-> "attachment", name |-> file.name, size |-> file.size,
     type |-> file.type, file |-> file.id]

\* setImage({src: fileReader.result}): the data URL of the file read
ImageNode(id) == [kind |-> "image", src |-> id, file |-> id]

\* faulty variant: the branch of an image file does not return
RECURSIVE InsertFilesNoReturn(_, _)
InsertFilesNoReturn(d, fs) ==
    IF fs = << >> THEN d
    ELSE InsertFilesNoReturn(Append(d, AttachmentNode(Head(fs))), Tail(fs))

\* files.forEach(...): the nodes inserted before forEach returns
RECURSIVE InsertFiles(_, _)
InsertFiles(d, fs) ==
    IF fs = << >> THEN d
    ELSE InsertFiles(IF IsImage(Head(fs)) THEN d
                     ELSE Append(d, AttachmentNode(Head(fs))), Tail(fs))

\* files.forEach(...): the files a FileReader was started on
StartReads(fs) == {fs[i].id : i \in {j \in 1..Len(fs) : IsImage(fs[j])}}

EditorInit ==
    /\ editor = FALSE
    /\ onContentChange = 1
    /\ handlers = << >>
    /\ cleanup = NoHandler
    /\ nextHandlerId = 1
    /\ editorMounted = TRUE
    /\ doc = << >>
    /\ readers = {}
    /\ nextFileId = 1
    /\ delivered = << >>

\* useEditor hands over the editor: DocEditor renders again and the effect,
\* whose dependency editor changed, runs
EditorReady ==
    /\ editorMounted /\ ~editor
    /\ nextHandlerId <= MaxHandlers
    /\ editor' = TRUE
    /\ handlers' = RerunEffect(handlers, cleanup, TRUE, onContentChange, nextHandlerId)
    /\ cleanup' = IF Subscribes(TRUE, onContentChange) THEN nextHandlerId ELSE NoHandler
    /\ nextHandlerId' = nextHandlerId + 1
    /\ UNCHANGED <<pageVars, editorText, onContentChange, editorMounted, doc,
                   readers, nextFileId, delivered>>

\* the host renders DocEditor with another onContentChange: the effect, whose
\* dependency onContentChange changed, runs
HostRender(cb) ==
    /\ editorMounted
    /\ cb /= onContentChange
    /\ nextHandlerId <= MaxHandlers
    /\ onContentChange' = cb
    /\ handlers' = RerunEffect(handlers, cleanup, editor, cb, nextHandlerId)
    /\ cleanup' = IF Subscribes(editor, cb) THEN nextHandlerId ELSE NoHandler
    /\ nextHandlerId' = nextHandlerId + 1
    /\ UNCHANGED <<pageVars, editorText, editor, editorMounted, doc, readers,
                   nextFileId, delivered>>

HostRenders == \E cb \in 1..MaxCallbacks : HostRender(cb)

\* the document changes to one of plain text `text`: the editor emits "update"
EditorUpdate(text) ==
    /\ editorMounted /\ editor
    /\ editorText' = text
    /\ delivered' = Emit(handlers, text)
    /\ UNCHANGED <<pageVars, editor, onContentChange, handlers, cleanup,
                   nextHandlerId, editorMounted, doc, readers, nextFileId>>

EditorUpdates == \E text \in Contents : EditorUpdate(text)

\* DocEditor unmounts: the cleanup of the effect runs
EditorUnmount ==
    /\ editorMounted
    /\ editorMounted' = FALSE
    /\ handlers' = EffectCleanup(handlers, cleanup)
    /\ UNCHANGED <<pageVars, editorText, editor, onContentChange, cleanup,
                   nextHandlerId, doc, readers, nextFileId, delivered>>

\* an insertion changes the document: the editor emits "update" with the new text
InsertionEmits(changed) ==
    IF changed
    THEN \E text \in Contents :
            editorText' = text /\ delivered' = Emit(handlers, text)
    ELSE UNCHANGED <<editorText, delivered>>

\* files.forEach of onDrop, onPaste and handleFileSelect over the list ks
HandleFiles(ks) ==
    /\ editorMounted /\ editor
    /\ nextFileId + Len(ks) - 1 <= MaxFiles
    /\ doc' = InsertFiles(doc, WithIds(ks, nextFileId))
    /\ readers' = readers \cup StartReads(WithIds(ks, nextFileId))
    /\ nextFileId' = nextFileId + Len(ks)
    /\ InsertionEmits(doc' /= doc)
    /\ UNCHANGED <<pageVars, editor, onContentChange, handlers, cleanup,
                   nextHandlerId, editorMounted>>

\* FileHandler onDrop
OnDrop == \E ks \in Batches : HandleFiles(ks)

\* FileHandler onPaste
OnPaste == \E ks \in Batches : HandleFiles(ks)

\* handleFileSelect: if (!files || files.length === 0 || !editor) return
HandleFileSelect == \E ks \in Batches : Len(ks) > 0 /\ HandleFiles(ks)

\* fileReader.onload of the file id: setImage with the data read; the editor
\* of an unmounted DocEditor is destroyed and may or may not take the node
ReadCompletes(id) ==
    /\ id \in readers
    /\ readers' = readers \ {id}
    /\ IF editorMounted
       THEN doc' = Append(doc, ImageNode(id))
       ELSE doc' \in {doc, Append(doc, ImageNode(id))}
    /\ InsertionEmits(editorMounted)
    /\ UNCHANGED <<pageVars, editor, onContentChange, handlers, cleanup,
                   nextHandlerId, editorMounted, nextFileId>>

\* the read of the file id fails: onload is never called
ReadFails(id) ==
    /\ id \in readers
    /\ readers' = readers \ {id}
    /\ UNCHANGED <<pageVars, editorText, editor, onContentChange, handlers,
                   cleanup, nextHandlerId, editorMounted, doc, nextFileId,
                   delivered>>

ReadEnds == \E id \in readers : ReadCompletes(id) \/ ReadFails(id)

----------------------------------------------------------------------------
(* Browser timers *)

\* faulty variant: clearing a handle that names no live timer clears them all
ClearTimeoutStaleClearsAll(ts, id) ==
    IF id \in DOMAIN ts THEN [i \in DOMAIN ts \ {id} |-> ts[i]] ELSE << >>

\* window.clearTimeout(id): no effect when id names no live timer
ClearTimeout(ts, id) == [i \in DOMAIN ts \ {id} |-> ts[i]]

\* window.setTimeout(cb, delay), returning handle id
SetTimeout(ts, id, delay) ==
    [i \in DOMAIN ts \cup {id} |-> IF i = id THEN delay ELSE ts[i]]

----------------------------------------------------------------------------
(* Home *)

\* faulty variant: the pending timer is not cleared before the new one is set
RescheduleNoClear(ts, ref, id) == SetTimeout(ts, id, DebounceMs)

\* faulty variant: a pending timer is kept and no new one is set (throttle, not debounce)
RescheduleKeepPending(ts, ref, id) ==
    IF ref \in DOMAIN ts THEN ts ELSE SetTimeout(ts, id, DebounceMs)

\* faulty variant: the ref is assigned first, so the clear hits the timer just set
RescheduleClearNew(ts, ref, id) == ClearTimeout(SetTimeout(ts, id, DebounceMs), id)

\* if (saveTimerRef.current) clearTimeout(saveTimerRef.current);
\* saveTimerRef.current = setTimeout(..., 900)
Reschedule(ts, ref, id) ==
    SetTimeout(IF ref /= NullRef THEN ClearTimeout(ts, ref) ELSE ts, id, DebounceMs)

\* faulty variant: the cleanup clears nothing
CleanupNothing(ts, ref) == ts

\* the effect cleanup: if (saveTimerRef.current) clearTimeout(saveTimerRef.current)
Cleanup(ts, ref) == IF ref /= NullRef THEN ClearTimeout(ts, ref) ELSE ts

\* faulty variant: the status is not touched by a content change
StatusKept(length, status) == status

\* faulty variant: an emptied document is shown as Saved at once
StatusSavedOnEmpty(length, status) == IF length > 0 THEN "Editing" ELSE "Saved"

\* if (content.length > 0) setSaveStatus("Editing")
StatusAfterChange(length, status) == IF length > 0 THEN "Editing" ELSE status

\* faulty variant: an emptied document cancels the pending timer
TimersCancelOnEmpty(length, ts, ref, id) ==
    IF length > 0 THEN Reschedule(ts, ref, id) ELSE Cleanup(ts, ref)

\* if (content.length > 0) { ...clearTimeout...; ...setTimeout... }
TimersAfterChange(length, ts, ref, id) ==
    IF length > 0 THEN Reschedule(ts, ref, id) ELSE ts

Init ==
    /\ saveStatus = "Saved"
    /\ contentLength = 0
    /\ paragraphCount = 0
    /\ saveTimerRef = NullRef
    /\ mounted = TRUE
    /\ timers = << >>
    /\ nextTimerId = 1
    /\ suggestions = Select(0, 0)
    /\ selectedId = "null"
    /\ editorText = << >>
    /\ idle = DebounceMs
    /\ fired = {}
    /\ EditorInit

\* the editor's update event, handleUpdate -> handleContentChange(text), and
\* the render that follows it
HandleContentChange(text) ==
    /\ mounted
    /\ Len(text) > 0 => nextTimerId <= MaxTimers
    /\ editorText' = text
    /\ contentLength' = Len(text)
    /\ paragraphCount' = Len(Paragraphs(text))
    /\ suggestions' = Select(Len(text), Len(Paragraphs(text)))
    /\ saveStatus' = StatusAfterChange(Len(text), saveStatus)
    /\ timers' = TimersAfterChange(Len(text), timers, saveTimerRef, nextTimerId)
    /\ saveTimerRef' = IF Len(text) > 0 THEN nextTimerId ELSE saveTimerRef
    /\ nextTimerId' = IF Len(text) > 0 THEN nextTimerId + 1 ELSE nextTimerId
    /\ idle' = IF Len(text) > 0 THEN 0 ELSE idle
    /\ UNCHANGED <<mounted, selectedId, fired>>
    /\ UNCHANGED editorVars

ContentChanged == \E text \in Contents : HandleContentChange(text)

\* faulty variant: the callback also resets the metrics the panel is given
TimerCallbackResetsMetrics(id) ==
    /\ id \in DOMAIN timers
    /\ timers[id] = 0
    /\ saveStatus' = "Saved"
    /\ timers' = ClearTimeout(timers, id)
    /\ fired' = fired \cup {id}
    /\ contentLength' = 0
    /\ paragraphCount' = 0
    /\ suggestions' = Select(0, 0)
    /\ UNCHANGED <<saveTimerRef, mounted, nextTimerId, selectedId, editorText, idle>>
    /\ UNCHANGED editorVars

\* the setTimeout callback of handle id runs: setSaveStatus("Saved")
TimerCallback(id) ==
    /\ id \in DOMAIN timers
    /\ timers[id] = 0
    /\ saveStatus' = "Saved"
    /\ timers' = ClearTimeout(timers, id)
    /\ fired' = fired \cup {id}
    /\ UNCHANGED <<contentLength, paragraphCount, saveTimerRef, mounted,
                   nextTimerId, suggestions, selectedId, editorText, idle>>
    /\ UNCHANGED editorVars

TimerFires == \E id \in DOMAIN timers : TimerCallback(id)

\* Home unmounts: the cleanup of the useEffect(..., []) runs
Unmount ==
    /\ mounted
    /\ mounted' = FALSE
    /\ timers' = Cleanup(timers, saveTimerRef)
    /\ UNCHANGED <<saveStatus, contentLength, paragraphCount, saveTimerRef,
                   nextTimerId, suggestions, selectedId, editorText, idle, fired>>
    /\ UNCHANGED editorVars

\* the amounts of time explored in one step
TickSteps == {1, 100, 899}

\* d milliseconds pass; a due callback may run late, never early
Elapse(d) ==
    /\ idle < DebounceMs \/ \E id \in DOMAIN timers : timers[id] > 0
    /\ idle' = Min(idle + d, DebounceMs)
    /\ timers' = [id \in DOMAIN timers |-> Max(timers[id] - d, 0)]
    /\ UNCHANGED <<saveStatus, contentLength, paragraphCount, saveTimerRef,
                   mounted, nextTimerId, suggestions, selectedId, editorText, fired>>
    /\ UNCHANGED editorVars

Tick == \E d \in TickSteps : Elapse(d)

Next == ContentChanged \/ TimerFires \/ Unmount \/ Tick

Spec == Init /\ [][Next]_vars

\* the timers run: time advances and a due callback is eventually called
FairSpec == Spec /\ WF_vars(Tick) /\ WF_vars(TimerFires)

----------------------------------------------------------------------------
(* The text metrics on their own: the editor emits longer texts, no time passes *)

TextChanged == \E text \in Texts : HandleContentChange(text)

NextMetrics == TextChanged

SpecMetrics == Init /\ [][NextMetrics]_vars

----------------------------------------------------------------------------
(* SuggestionsPanel on its own: Home hands it any props *)

InitPanel ==
    /\ saveStatus = "Saved"
    /\ contentLength \in 0..MaxLength
    /\ paragraphCount \in 0..MaxParagraphs
    /\ saveTimerRef = NullRef
    /\ mounted = TRUE
    /\ timers = << >>
    /\ nextTimerId = 1
    /\ suggestions = Select(contentLength, paragraphCount)
    /\ selectedId = "null"
    /\ editorText = << >>
    /\ idle = DebounceMs
    /\ fired = {}
    /\ EditorInit

\* the lengths a re-render is explored with: one character more or less, and
\* the thresholds of the bucket rules
NextLengths(length) ==
    {length - 1, length + 1, 0, 99, 100, 499, 500, MaxLength} \cap (0..MaxLength)

\* faulty variant: a selection that is not in the new list is reset to null
PanelRenderDropsSelection(length, paragraphs) ==
    /\ <<length, paragraphs>> /= <<contentLength, paragraphCount>>
    /\ contentLength' = length
    /\ paragraphCount' = paragraphs
    /\ suggestions' = Select(length, paragraphs)
    /\ selectedId' =
          IF \E i \in 1..Len(suggestions') : suggestions'[i].id = selectedId
          THEN selectedId ELSE "null"
    /\ UNCHANGED <<saveStatus, saveTimerRef, mounted, timers, nextTimerId,
                   editorText, idle, fired>>
    /\ UNCHANGED editorVars

\* Home re-renders the panel with new props; useMemo recomputes the list
PanelRender(length, paragraphs) ==
    /\ <<length, paragraphs>> /= <<contentLength, paragraphCount>>
    /\ contentLength' = length
    /\ paragraphCount' = paragraphs
    /\ suggestions' = Select(length, paragraphs)
    /\ UNCHANGED <<saveStatus, saveTimerRef, mounted, timers, nextTimerId,
                   selectedId, editorText, idle, fired>>
    /\ UNCHANGED editorVars

PropsChange ==
    \E length \in NextLengths(contentLength), paragraphs \in 0..MaxParagraphs :
        PanelRender(length, paragraphs)

\* onClick={() => setSelectedId(s.id)} of the i-th card
ClickCard(i) ==
    /\ i \in 1..Len(suggestions)
    /\ selectedId' = suggestions[i].id
    /\ selectedId' /= selectedId
    /\ UNCHANGED <<homeVars, suggestions>>
    /\ UNCHANGED editorVars

Click == \E i \in 1..Len(suggestions) : ClickCard(i)

\* const selected = selectedId === s.id
IsSelected(s, id) == id = s.id

\* the cards rendered with the highlight classes
Highlighted == {i \in 1..Len(suggestions) : IsSelected(suggestions[i], selectedId)}

NextPanel == PropsChange \/ Click

SpecPanel == InitPanel /\ [][NextPanel]_vars

----------------------------------------------------------------------------
(* DocEditor on its own: its host hands it callbacks, its user edits the text *)

NextEditor ==
    \/ EditorReady
    \/ HostRenders
    \/ EditorUpdates
    \/ EditorUnmount

SpecEditor == Init /\ [][NextEditor]_vars

----------------------------------------------------------------------------
(* DocEditor on its own: its user hands it files *)

NextFiles ==
    \/ EditorReady
    \/ OnDrop
    \/ OnPaste
    \/ HandleFileSelect
    \/ ReadEnds
    \/ EditorUnmount

SpecFiles == Init /\ [][NextFiles]_vars

----------------------------------------------------------------------------
(* Save status: the debounce *)

\* a content change with length > 0 is the step that takes a new timer handle
PositiveChange == \E text \in Contents : Len(text) > 0 /\ HandleContentChange(text)

\* C1: while fewer than 900 ms have passed since the most recent content
\* change with length > 0, the status is Editing (it is not Saved earlier
\* than 900 ms after the last such change).
C1_EditingWithinWindow == idle < 900 => saveStatus = "Editing"

\* C1 witness: 899 ms after a change that followed an earlier settle.
C1_Witness == idle = 899 /\ saveStatus = "Editing" /\ fired /= {}

\* C2: from a change with length > 0 until the timer of the most recent such
\* change fires the status is Editing, and Saved afterwards; a callback that
\* runs is the one of the most recent change, runs at most once, no earlier
\* than 900 ms after that change, and is the only step from Editing to Saved;
\* the timers of earlier changes of a burst never fire; and when no further
\* change with length > 0 and no unmount follows, the last timer does fire.
C2_OnlyLastTimerFires ==
    /\ [](saveTimerRef /= NullRef =>
            (saveStatus = "Editing" <=> saveTimerRef \notin fired))
    /\ [][fired' /= fired =>
            /\ saveTimerRef \notin fired
            /\ fired' = fired \cup {saveTimerRef}
            /\ idle >= 900
            /\ saveStatus = "Editing" /\ saveStatus' = "Saved"]_vars
    /\ [][(saveStatus = "Editing" /\ saveStatus' = "Saved") => fired' /= fired]_vars
    /\ \A n \in 2..(MaxTimers + 1) :
            <>[](nextTimerId = n /\ mounted) => <>(saveTimerRef \in fired)

\* C2 witness: a burst of three changes has settled through the third timer only.
C2_Witness == fired = {3} /\ saveStatus = "Saved" /\ saveTimerRef = 3

\* C3: the step of a content change with length > 0 ends with status Editing,
\* whatever the status and the timer were before.
C3_EditingAtOnce == [][PositiveChange => saveStatus' = "Editing"]_vars

\* C3 witness: a change has just arrived (0 ms ago) after an earlier settle
\* to Saved, with the stale handle of the fired timer replaced.
C3_Witness ==
    /\ idle = 0 /\ saveStatus = "Editing"
    /\ fired /= {} /\ saveTimerRef \notin fired

\* C4: at most one timer is live at any time.
C4_AtMostOneTimer == Cardinality(DOMAIN timers) <= 1

\* C4 witness: one live timer, after an earlier timer was replaced while
\* pending and an empty-document change arrived.
C4_Witness ==
    /\ Cardinality(DOMAIN timers) = 1
    /\ saveTimerRef >= 2 /\ (saveTimerRef - 1) \notin fired
    /\ contentLength = 0

\* C5: a content change with length 0 changes neither the status nor the
\* timers nor the handle; a timer pending at that moment keeps its deadline
\* and the status stays Editing while it is pending.
C5_EmptyChangeIsFrame ==
    /\ [][HandleContentChange(<< >>) =>
            UNCHANGED <<saveStatus, timers, saveTimerRef, nextTimerId>>]_vars
    /\ []((contentLength = 0 /\ saveTimerRef \in DOMAIN timers)
            => (saveStatus = "Editing" /\ timers[saveTimerRef] = 900 - idle))

\* C5 witness: the document was emptied while a timer was pending, and the
\* timer is still pending with its original deadline.
C5_Witness ==
    /\ contentLength = 0 /\ saveStatus = "Editing"
    /\ saveTimerRef \in DOMAIN timers
    /\ timers[saveTimerRef] = 400 /\ idle = 500

\* C6: after the unmount no timer is live, no callback runs and the status
\* does not change.
C6_NothingAfterTeardown ==
    /\ [](~mounted => DOMAIN timers = {})
    /\ [][~mounted => UNCHANGED <<saveStatus, fired>>]_vars

\* C6 witness: unmounted with a timer pending; 900 ms later the status is
\* still Editing.
C6_Witness == ~mounted /\ saveStatus = "Editing" /\ idle = 900 /\ saveTimerRef \notin fired

\* C7: if from some point on no further change with length > 0 arrives
\* (at least one has arrived) and the page is never unmounted, the status is
\* eventually Saved for good -- also when changes with length 0 keep coming.
C7_EventuallySaved ==
    \A n \in 2..(MaxTimers + 1) :
        <>[](nextTimerId = n /\ mounted) => <>[](saveStatus = "Saved")

\* C7 witness: settled to Saved after the document was emptied.
C7_Witness ==
    /\ saveStatus = "Saved" /\ mounted
    /\ saveTimerRef \in fired /\ contentLength = 0

\* C8: the status is Saved until the first change with length > 0; Saved
\* becomes Editing only in a change with length > 0; Editing becomes Saved
\* only when a timer callback runs; a change with length > 0 in Editing
\* keeps Editing and leaves exactly the new timer, with the full delay; no
\* callback runs while the status is Saved.
C8_StateMachine ==
    /\ [](saveTimerRef = NullRef => saveStatus = "Saved")
    /\ [][(saveStatus = "Saved" /\ saveStatus' = "Editing") => PositiveChange]_vars
    /\ [][(saveStatus = "Editing" /\ saveStatus' = "Saved") => TimerFires]_vars
    /\ [][(saveStatus = "Editing" /\ PositiveChange) =>
            /\ saveStatus' = "Editing"
            /\ DOMAIN timers' = {saveTimerRef'}
            /\ timers'[saveTimerRef'] = 900]_vars
    /\ [][TimerFires => saveStatus = "Editing"]_vars

\* C8 witness: Editing with a timer that replaced a pending one.
C8_Witness ==
    /\ saveStatus = "Editing" /\ saveTimerRef = 2
    /\ fired = {} /\ DOMAIN timers = {2}

\* C9 (as stated): once a callback has run and no change has followed, the
\* tracker holds no timer handle.
C9_HandleCleared == (saveStatus = "Saved" /\ fired /= {}) => saveTimerRef = NullRef

\* C9 (amended): once a callback has run and no change with length > 0 has
\* followed, the status is Saved and no timer is live, and saveTimerRef still
\* holds the handle of the timer that fired.
C9_HandleKept ==
    /\ (saveStatus = "Saved" /\ fired /= {}) =>
            (DOMAIN timers = {} /\ saveTimerRef \in fired)
    /\ saveTimerRef \in fired => (saveStatus = "Saved" /\ DOMAIN timers = {})

\* C9 witness: settled, with the stale handle in the ref.
C9_Witness == saveStatus = "Saved" /\ saveTimerRef = 1 /\ fired = {1} /\ mounted

----------------------------------------------------------------------------
(* Suggestions *)

\* C10: the suggestion list has at least 2 and at most 4 entries, for every
\* length and paragraph count.
C10_TwoToFour == Len(suggestions) >= 2 /\ Len(suggestions) <= 4

\* C10 witness: the four-entry list, and the props it comes from.
C10_Witness == Len(suggestions) = 4 /\ contentLength >= 500 /\ paragraphCount >= 3

\* the tone and priority of each card, in list order
TonePriority(s) == [i \in 1..Len(s) |-> <<s[i].tone, s[i].priority>>]

\* the four bucket rules as stated, and the table stated for each
Rule(k, length, paragraphs) ==
    CASE k = 1 -> length < 100
      [] k = 2 -> 100 <= length /\ length < 500
      [] k = 3 -> length >= 500 /\ paragraphs < 3
      [] k = 4 -> length >= 500 /\ paragraphs >= 3

Table(k) ==
    CASE k = 1 -> << <<"structure", "high">>, <<"clarity", "mid">> >>
      [] k = 2 -> << <<"structure", "high">>, <<"evidence", "mid">> >>
      [] k = 3 -> << <<"structure", "high">>, <<"flow", "mid">> >>
      [] k = 4 -> << <<"flow", "mid">>, <<"evidence", "high">>,
                     <<"clarity", "mid">>, <<"structure", "high">> >>

\* C11: for the current props exactly one of the four bucket rules applies,
\* and the tone/priority sequence of the list is that rule's table -- in
\* every state, whatever props and clicks came before.
C11_OneBucketItsTable ==
    /\ Cardinality({k \in 1..4 : Rule(k, contentLength, paragraphCount)}) = 1
    /\ \A k \in 1..4 :
          Rule(k, contentLength, paragraphCount) => TonePriority(suggestions) = Table(k)

\* C11 witness: the boundary length 100 with the second table, reached with
\* a card of an earlier list selected.
C11_Witness ==
    /\ contentLength = 100 /\ paragraphCount = 3
    /\ TonePriority(suggestions) = Table(2)
    /\ selectedId = "4"

\* C12: for length >= 500 and paragraphCount >= 3 the list has exactly the
\* 4 cards flow/mid, evidence/high, clarity/mid, structure/high in this
\* order, and slice(0, 4) has removed nothing of what the rules pushed.
C12_FourInOrder ==
    (contentLength >= 500 /\ paragraphCount >= 3) =>
        /\ Len(suggestions) = 4
        /\ [i \in 1..4 |-> suggestions[i].tone] =
              <<"flow", "evidence", "clarity", "structure">>
        /\ [i \in 1..4 |-> suggestions[i].priority] = <<"mid", "high", "mid", "high">>
        /\ suggestions = WithFallback(PickBucket(contentLength, paragraphCount))

\* C12 witness: length 600 with the largest paragraph count.
C12_Witness ==
    contentLength = 600 /\ paragraphCount = MaxParagraphs /\ Len(suggestions) = 4

\* C13: for length >= 500 and paragraphCount < 3 the list is structure/high,
\* flow/mid (2 cards), never the 4-card list.
C13_FewParagraphs ==
    (contentLength >= 500 /\ paragraphCount < 3) =>
        /\ Len(suggestions) = 2
        /\ suggestions[1].tone = "structure" /\ suggestions[1].priority = "high"
        /\ suggestions[2].tone = "flow" /\ suggestions[2].priority = "mid"

\* C13 witness: length 600 with 2 paragraphs.
C13_Witness == contentLength = 600 /\ paragraphCount = 2 /\ Len(suggestions) = 2

\* C14: the rules push at least 2 cards, so the fallback card "default-1"
\* is in no list and no card has priority low.
C14_NoFallback ==
    /\ Len(PickBucket(contentLength, paragraphCount)) >= 2
    /\ \A i \in 1..Len(suggestions) :
          suggestions[i].id /= "default-1" /\ suggestions[i].priority /= "low"

\* C14 witness: the empty document, with its 2 cards.
C14_Witness == contentLength = 0 /\ paragraphCount = 0 /\ Len(suggestions) = 2

\* C15: the ids of a list are "1".."n" in list order, hence pairwise distinct.
C15_DistinctIds ==
    /\ \A i, j \in 1..Len(suggestions) :
          i /= j => suggestions[i].id /= suggestions[j].id
    /\ \A i \in 1..Len(suggestions) : suggestions[i].id = ToString(i)

\* C15 witness: the 4-card list with ids up to "4".
C15_Witness == Len(suggestions) = 4 /\ suggestions[4].id = "4"

\* min(length, 1000) / 10 rounded to the nearest integer, halves up
HalfUpTenth(length) == (Min(length, 1000) + 5) \div 10

\* C16: progress equals min(length, 1000) / 10 rounded half up, with
\* progress(0) = 0, progress(500) = 50, progress(1000) = 100 and
\* progress(5000) = 100. The double arithmetic of getProgress breaks this at
\* length 145: (145 / 1000) * 100 is 14.499999999999998 and rounds to 14.
C16_ProgressHalfUp ==
    /\ progress = HalfUpTenth(contentLength)
    /\ getProgress(0) = 0
    /\ getProgress(500) = 50
    /\ getProgress(1000) = 100
    /\ getProgress(5000) = 100

----------------------------------------------------------------------------
(* Text metrics *)

\* the lines of a text as stated: a character starts a counted line when it
\* is not whitespace and no other non-whitespace character lies between the
\* preceding newline (or the start) and it
NonBlankLines(text) ==
    Cardinality({i \in 1..Len(text) :
        /\ ~IsSpace(text[i])
        /\ \A j \in 1..(i - 1) :
              ~IsSpace(text[j]) => \E k \in (j + 1)..(i - 1) : text[k] = "\n"})

\* "a", an empty line, "b", a line of two spaces, "c" (every letter is "a" here)
ExampleText == <<"a", "\n", "\n", "a", "\n", " ", " ", "\n", "a">>

\* C17: paragraphCount is the number of newline-separated lines of the
\* current text that hold a non-whitespace character; empty and
\* whitespace-only lines are not counted (the five-line example gives 3)
\* and the empty text gives 0.
C17_NonBlankLineCount ==
    /\ paragraphCount = NonBlankLines(editorText)
    /\ editorText = << >> => paragraphCount = 0
    /\ Len(Paragraphs(ExampleText)) = 3

\* C17 witness: "a", a line of one space, "a": 3 lines, 2 counted.
C17_Witness ==
    editorText = <<"a", "\n", " ", "\n", "a">> /\ paragraphCount = 2

\* C18: the stored metrics are those of the text of the most recent event
\* alone, whatever texts came before and in whatever order.
C18_MetricsOfLastText ==
    /\ contentLength = Len(editorText)
    /\ paragraphCount = NonBlankLines(editorText)

\* C18 witness: a one-line text after two longer texts (the third change
\* with length > 0), with the metrics of the one line.
C18_Witness ==
    /\ editorText = <<"a">> /\ nextTimerId = 4
    /\ contentLength = 1 /\ paragraphCount = 1

----------------------------------------------------------------------------
(* Selection *)

\* the ids of the cards of the current list
ListIds == {suggestions[i].id : i \in 1..Len(suggestions)}

\* C19: a re-render with new props leaves the selected id as it is, also
\* when the new list has no card with that id; the selected id changes in
\* a click on a card only.
C19_SelectionSurvivesRecompute ==
    /\ [][PropsChange => selectedId' = selectedId]_vars
    /\ [][selectedId' /= selectedId => Click]_vars

\* C19 witness: "4" is selected and the list has 2 cards.
C19_Witness == selectedId = "4" /\ Len(suggestions) = 2

\* C20: at most one card is highlighted; it is the card whose id is the
\* selected id, and no card is highlighted when the selected id is null or
\* is the id of no card of the list.
C20_HighlightFollowsSelection ==
    /\ Cardinality(Highlighted) <= 1
    /\ selectedId \notin ListIds => Highlighted = {}
    /\ selectedId \in ListIds =>
          \E i \in 1..Len(suggestions) :
              Highlighted = {i} /\ suggestions[i].id = selectedId

\* C20 witness: "3" is selected, the list has 2 cards, none is highlighted.
C20_Witness == selectedId = "3" /\ Len(suggestions) = 2 /\ Highlighted = {}

----------------------------------------------------------------------------
(* Stale handles *)

\* the handles setTimeout has returned whose timer has fired or was cancelled
StaleHandles == (1..(nextTimerId - 1)) \ DOMAIN timers

\* C21: cancelling a handle whose timer has fired or was cancelled changes
\* no timer (and cancelling twice is cancelling once); a content change with
\* length > 0 that finds the handle of a fired timer leaves exactly the new
\* timer, with the full delay; the teardown leaves no timer, and with a
\* stale handle it changes neither the timers nor the status.
C21_StaleCancelIsNoOp ==
    /\ [](\A h \in StaleHandles : ClearTimeout(timers, h) = timers)
    /\ [](\A h \in 1..MaxTimers :
            ClearTimeout(ClearTimeout(timers, h), h) = ClearTimeout(timers, h))
    /\ [][(PositiveChange /\ saveTimerRef \in fired) =>
            /\ DOMAIN timers' = {saveTimerRef'}
            /\ timers'[saveTimerRef'] = 900
            /\ saveTimerRef' \notin fired']_vars
    /\ [][Unmount => DOMAIN timers' = {}]_vars
    /\ [][(Unmount /\ saveTimerRef \in StaleHandles) =>
            UNCHANGED <<timers, saveStatus>>]_vars

\* C21 witness: the page was torn down holding the handle of the second
\* timer, which had fired; the first had been cancelled.
C21_Witness ==
    /\ ~mounted /\ saveTimerRef = 2 /\ fired = {2}
    /\ StaleHandles = {1, 2}

----------------------------------------------------------------------------
(* Status and suggestions *)

\* C22: a timer firing changes the status only: contentLength,
\* paragraphCount, the suggestion list and progress stay as they are; and in
\* every state, Editing or Saved, the list and progress are the same
\* function of (contentLength, paragraphCount).
C22_StatusAndSuggestionsApart ==
    /\ [][TimerFires =>
            /\ UNCHANGED <<contentLength, paragraphCount, suggestions>>
            /\ progress' = progress]_vars
    /\ [](/\ suggestions = Select(contentLength, paragraphCount)
          /\ progress = getProgress(contentLength))

\* C22 witness: the timer has fired on a document of one character: Saved,
\* with the list of that document, not of the empty one.
C22_Witness ==
    /\ saveStatus = "Saved" /\ fired /= {}
    /\ contentLength = 1 /\ paragraphCount = 1
    /\ suggestions = Select(1, 1)

----------------------------------------------------------------------------
(* Status and the pending timer *)

\* C23: while the page is mounted the status is Editing exactly when a timer
\* is live (set, not fired, not cancelled); after the teardown no timer is
\* live, whatever the status.
C23_EditingIffTimerLive ==
    /\ mounted => (saveStatus = "Editing" <=> DOMAIN timers /= {})
    /\ ~mounted => DOMAIN timers = {}

\* C23 witness: the first timer fired, the second was pending at the
\* teardown: the status stays Editing with no live timer.
C23_Witness ==
    /\ ~mounted /\ saveStatus = "Editing" /\ DOMAIN timers = {}
    /\ fired = {1} /\ saveTimerRef = 2

----------------------------------------------------------------------------
(* The update subscription *)

----------------------------------------------------------------------------
(* Files *)

\* the attachment nodes of the files of a list that are not images, in list order
AttachmentsOf(fs) ==
    LET rest == SelectSeq(fs, LAMBDA f : ~StartsWith(f.type, ImagePrefix))
    IN  [i \in 1..Len(rest) |->
            [kind |-> "attachment", name |-> rest[i].name, size |-> rest[i].size,
             type |-> rest[i].type, file |-> rest[i].id]]

\* the nodes of the document made from the File object id
NodesOf(id) == {i \in 1..Len(doc) : doc[i].file = id}

\* C25: handing over a list of files inserts, in that step, one attachment
\* node per file that is not an image, with the file's name, size and type,
\* in list order, and starts a read for every image; an image node is
\* inserted only in the step in which the read of its file ends, in whatever
\* order the reads end; no file gives more than one node, and none while its
\* read is pending.
C25_AttachmentsNowImagesLater ==
    /\ [][\A ks \in {b \in Batches : Len(b) = nextFileId' - nextFileId} :
          HandleFiles(ks) =>
            /\ doc' = doc \o AttachmentsOf(WithIds(ks, nextFileId))
            /\ readers' = readers \cup
                  {f.id : f \in {g \in Range(WithIds(ks, nextFileId)) :
                                    StartsWith(g.type, ImagePrefix)}}]_vars
    /\ [][\A i \in 1..Len(doc') : (i > Len(doc) /\ doc'[i].kind = "image") =>
            /\ doc'[i].file \in readers /\ doc'[i].file \notin readers'
            /\ doc' = Append(doc, doc'[i])]_vars
    /\ [](\A id \in 1..MaxFiles :
            /\ Cardinality(NodesOf(id)) <= 1
            /\ id \in readers => NodesOf(id) = {})

\* C25 witness: an image, an image and a document were dropped together; the
\* document's card comes first, then the second image, then the first.
C25_Witness ==
    /\ Len(doc) = 3
    /\ doc[1].kind = "attachment" /\ doc[1].file = 3
    /\ doc[2].kind = "image" /\ doc[2].file = 2
    /\ doc[3].kind = "image" /\ doc[3].file = 1

====
